---- MODULE Spec2Model ----
(***************************************************************************)
(* The NDC retrieval pipeline of get_ndc_with_ingredient_name.py: for each *)
(* ingredient, a name lookup (step 1), the expansion of every initial      *)
(* RxCUI to its related drug-product RxCUIs (step 2), the NDC codes of     *)
(* every retained RxCUI and the properties of every NDC (step 3), and the  *)
(* final DataFrame (step 4).  The remote service is the environment: each  *)
(* call's response is drawn from a bounded set when the call is made, and  *)
(* the elements of the related-concepts lists are drawn when the loops     *)
(* read them (the code reads each element once, in order).                 *)
(***************************************************************************)
EXTENDS Naturals, Sequences, FiniteSets, TLC

(***************************************************************************)
(* Bounds of the model.                                                    *)
(***************************************************************************)
NumIngredients == 2      \* how many of the seven ingredients are processed
MaxInitial == 1          \* longest rxnormId list of a name lookup
MaxGroups == 1           \* longest conceptGroup list of an allrelated response
MaxProps == 2            \* longest conceptProperties list of a group
MaxCodes == 2            \* longest ndc list of an ndcs response
MaxPayload == 1          \* longest ndcProperty list of an ndcproperties response
MaxData == 4             \* remote calls of a run that return a non-empty JSON body

(***************************************************************************)
(* Python values.                                                          *)
(***************************************************************************)
Null == "None"
EmptyDict == [k \in {} |-> Null]
Get(d, k, default) == IF k \in DOMAIN d THEN d[k] ELSE default

RECURSIVE SeqsUpTo(_, _)
SeqsUpTo(S, n) ==
    IF n = 0 THEN {<<>>}
    ELSE LET shorter == SeqsUpTo(S, n - 1)
         IN  shorter \cup {Append(q, x) : q \in {p \in shorter : Len(p) = n - 1}, x \in S}

(***************************************************************************)
(* The program's constants.                                                *)
(***************************************************************************)
all_ingredients ==
    <<"Exenatide", "Liraglutide", "Semaglutide", "Dulaglutide",
      "Lixisenatide", "Albiglutide", "Tirzepatide">>
ingredients == SubSeq(all_ingredients, 1, NumIngredients)
drug_product_term_types == {"SCD", "SBD", "BPCK", "GPCK"}

(***************************************************************************)
(* The service's vocabulary and the responses of its four endpoints.  A    *)
(* response is the outcome of requests.get: "exception" (the request       *)
(* raised), "blank" (the body is empty or whitespace), "badjson" (the body *)
(* does not parse) or "json" with the parsed body.                         *)
(***************************************************************************)
INITIAL_IDS == {"84108"}
RXCUIS == {"311036", "847910"}
NAMES == {"exenatide 250 MCG/ML", "Byetta 250 MCG/ML"}
NDCS == {"00002-1433-01", "00310-6512-01"}
DESCS == {"Byetta"}

FailureKinds == {"exception", "blank", "badjson"}
Response(kind, body) == [kind |-> kind, body |-> body]
Failures == {Response(k, EmptyDict) : k \in FailureKinds}

NameEmptyBodies ==
    {EmptyDict, [idGroup |-> EmptyDict], [idGroup |-> [rxnormId |-> <<>>]]}
NameDataBodies ==
    {[idGroup |-> [rxnormId |-> l]] : l \in SeqsUpTo(INITIAL_IDS, MaxInitial) \ {<<>>}}

\* A list of the related-concepts response is given by its length; its
\* elements are drawn by GroupNext and CpNext.
RelatedEmptyBodies ==
    {EmptyDict, [allRelatedGroup |-> EmptyDict], [allRelatedGroup |-> [conceptGroup |-> 0]]}
RelatedDataBodies ==
    {[allRelatedGroup |-> [conceptGroup |-> n]] : n \in 1..MaxGroups}
Groups == {EmptyDict} \cup {[conceptProperties |-> n] : n \in 0..MaxProps}
\* The entries the service has: concept 311036 under either name and each
\* accepted term type, concept 847910 under one name, both concepts as an
\* ingredient ("IN") and without a term type, and an entry without rxcui.
Concepts ==
    [tty : drug_product_term_types, rxcui : {"311036"}, name : NAMES]
      \cup [tty : drug_product_term_types, rxcui : {"847910"}, name : {"Byetta 250 MCG/ML"}]
      \cup [tty : {"IN"}, rxcui : RXCUIS, name : {"Byetta 250 MCG/ML"}]
      \cup [rxcui : RXCUIS, name : {"Byetta 250 MCG/ML"}]
      \cup [tty : {"SCD"}, name : {"Byetta 250 MCG/ML"}]

NdcEmptyBodies ==
    {EmptyDict, [ndcGroup |-> EmptyDict], [ndcGroup |-> [ndcList |-> EmptyDict]],
     [ndcGroup |-> [ndcList |-> [ndc |-> <<>>]]]}
NdcDataBodies ==
    {[ndcGroup |-> [ndcList |-> [ndc |-> l]]] : l \in SeqsUpTo(NDCS, MaxCodes) \ {<<>>}}

\* The ndcProperty payload, tagged with its Python type.
PropertyObjects == {EmptyDict} \cup {[name |-> d] : d \in DESCS}
PyList(l) == [type |-> "list", value |-> l]
PyDict(o) == [type |-> "dict", value |-> o]
PyNone == [type |-> "NoneType", value |-> EmptyDict]
PropEmptyBodies ==
    {EmptyDict, [ndcPropertyGroup |-> EmptyDict],
     [ndcPropertyGroup |-> [ndcProperty |-> PyList(<<>>)]]}
PropDataBodies ==
    {[ndcPropertyGroup |-> [ndcProperty |-> p]] :
        p \in {PyList(l) : l \in SeqsUpTo(PropertyObjects, MaxPayload) \ {<<>>}}
                \cup {PyDict(o) : o \in PropertyObjects}}

EmptyBodies(stage) ==
    CASE stage = "name" -> NameEmptyBodies
      [] stage = "related" -> RelatedEmptyBodies
      [] stage = "ndcs" -> NdcEmptyBodies
      [] stage = "props" -> PropEmptyBodies
DataBodies(stage) ==
    CASE stage = "name" -> NameDataBodies
      [] stage = "related" -> RelatedDataBodies
      [] stage = "ndcs" -> NdcDataBodies
      [] stage = "props" -> PropDataBodies
Stages == {"name", "related", "ndcs", "props"}

(***************************************************************************)
(* safe_get_json: every failure of the request or of the parse is turned   *)
(* into the empty dict.                                                    *)
(***************************************************************************)
safe_get_json(response) ==
    IF response.kind = "exception" THEN EmptyDict
    ELSE IF response.kind = "blank" THEN EmptyDict
    ELSE IF response.kind = "badjson" THEN EmptyDict
    ELSE response.body

(***************************************************************************)
(* The state of the script: its module-level variables and its position.   *)
(* related_rxcui_dict is the insertion-ordered dict, a sequence of items.  *)
(* The lists of the related-concepts response are held as the number of    *)
(* elements their loops have still to read.                                *)
(***************************************************************************)
InitRun ==
    [pc |-> "resolve",
     pos |-> 1,
     initial_rxcui_list |-> <<>>,
     rxcui_index |-> 0,
     concept_groups |-> 0,
     concept_properties |-> 0,
     related_rxcui_dict |-> <<>>,
     item |-> 0,
     ndc_list_bound |-> FALSE,
     ndc_list |-> <<>>,
     ndc_index |-> 0,
     results |-> <<>>,
     total_rxcui_count |-> 0,
     total_ndc_count |-> 0,
     temp_df |-> <<>>,
     df |-> <<>>]

ingredient(s) == ingredients[s.pos]

\* The for loop of line 44 takes the next ingredient, or ends.
NextIngredient(s) ==
    IF s.pos < Len(ingredients)
    THEN [s EXCEPT !.pos = s.pos + 1, !.pc = "resolve"]
    ELSE [s EXCEPT !.pc = "final"]

\* Lines 84-88: step 3 starts, over the items of related_rxcui_dict.
StartStep3(s) ==
    LET t == [s EXCEPT !.total_rxcui_count = s.total_rxcui_count + Len(s.related_rxcui_dict)]
    IN  IF s.related_rxcui_dict = <<>>
        THEN [t EXCEPT !.pc = "complete"]
        ELSE [t EXCEPT !.item = 1, !.pc = "ndcs"]

\* The for loop of line 63 takes the next initial RxCUI, or ends.
NextInitial(s) ==
    IF s.rxcui_index < Len(s.initial_rxcui_list)
    THEN [s EXCEPT !.rxcui_index = s.rxcui_index + 1, !.pc = "related"]
    ELSE StartStep3(s)

\* A variant of line 51 that falls back to an identifier when the field is absent.
initial_rxcui_list_with_default(initial_data) ==
    Get(Get(initial_data, "idGroup", EmptyDict), "rxnormId", <<"84108">>)

\* Line 51.
initial_rxcui_list_of(initial_data) ==
    Get(Get(initial_data, "idGroup", EmptyDict), "rxnormId", <<>>)

\* A variant of line 53 that tests the parsed body instead of the list.
NothingFoundInBody(initial_data, initial_rxcui_list) == initial_data = EmptyDict

\* Line 53.
NothingFound(initial_data, initial_rxcui_list) == initial_rxcui_list = <<>>

\* A variant of lines 48-63 that starts the ingredient with an empty results list.
ResolveStepResettingResults(s, response) ==
    LET initial_data == safe_get_json(response)
        list == initial_rxcui_list_of(initial_data)
        t == [s EXCEPT !.initial_rxcui_list = list, !.results = <<>>]
    IN  IF NothingFound(initial_data, list)
        THEN NextIngredient(t)
        ELSE NextInitial([t EXCEPT !.related_rxcui_dict = <<>>, !.rxcui_index = 0])

\* Lines 48-63.
ResolveStep(s, response) ==
    LET initial_data == safe_get_json(response)
        list == initial_rxcui_list_of(initial_data)
        t == [s EXCEPT !.initial_rxcui_list = list]
    IN  IF NothingFound(initial_data, list)
        THEN NextIngredient(t)
        ELSE NextInitial([t EXCEPT !.related_rxcui_dict = <<>>, !.rxcui_index = 0])

\* Lines 64-69.
concept_groups_of(related_data) ==
    Get(Get(related_data, "allRelatedGroup", EmptyDict), "conceptGroup", 0)

RelatedStep(s, response) ==
    [s EXCEPT !.concept_groups = concept_groups_of(safe_get_json(response)),
              !.pc = "group"]

\* Lines 70-71: the loop reads the next group.
GroupStep(s, group) ==
    [s EXCEPT !.concept_groups = s.concept_groups - 1,
              !.concept_properties = Get(group, "conceptProperties", 0),
              !.pc = "cp"]

\* Lines 81-82: the groups are exhausted.
GroupsEndStep(s) == NextInitial(s)

\* A variant of the membership test of line 77 that never finds the identifier.
InDictNever(dict, id) == FALSE

\* Lines 72-79.
InDict(dict, id) == \E j \in 1..Len(dict) : dict[j].rxcui = id
Truthy(v) == v # Null /\ v # ""

\* A variant of lines 74-79 without the term-type filter of line 74.
DictAfterAnyTermType(dict, cp) ==
    LET related_id == Get(cp, "rxcui", Null)
        name == Get(cp, "name", Null)
    IN  IF Truthy(related_id) /\ ~(\E j \in 1..Len(dict) : dict[j].rxcui = related_id)
        THEN Append(dict, [rxcui |-> related_id, name |-> name])
        ELSE dict

\* A variant of lines 74-79 without the membership test of line 77: the
\* assignment of line 78 then replaces the name of an identifier already kept.
DictAfterLastNameWins(dict, cp) ==
    IF Get(cp, "tty", Null) \in drug_product_term_types
    THEN LET related_id == Get(cp, "rxcui", Null)
             name == Get(cp, "name", Null)
         IN  IF ~Truthy(related_id) THEN dict
             ELSE IF \E j \in 1..Len(dict) : dict[j].rxcui = related_id
             THEN [j \in 1..Len(dict) |->
                      IF dict[j].rxcui = related_id
                      THEN [rxcui |-> related_id, name |-> name]
                      ELSE dict[j]]
             ELSE Append(dict, [rxcui |-> related_id, name |-> name])
    ELSE dict

DictAfter(dict, cp) ==
    IF Get(cp, "tty", Null) \in drug_product_term_types
    THEN LET related_id == Get(cp, "rxcui", Null)
             name == Get(cp, "name", Null)
         IN  IF Truthy(related_id) /\ ~InDict(dict, related_id)
             THEN Append(dict, [rxcui |-> related_id, name |-> name])
             ELSE dict
    ELSE dict

CpStep(s, cp) ==
    [s EXCEPT !.related_rxcui_dict = DictAfter(s.related_rxcui_dict, cp),
              !.concept_properties = s.concept_properties - 1]

\* Line 72: the properties of the group are exhausted.
CpEndStep(s) == [s EXCEPT !.pc = "group"]

\* The loop of line 88 takes the next item, or ends.
NextItem(s) ==
    IF s.item < Len(s.related_rxcui_dict)
    THEN [s EXCEPT !.item = s.item + 1, !.pc = "ndcs"]
    ELSE [s EXCEPT !.pc = "complete"]

\* Line 91.
ndc_list_of(ndc_data) ==
    Get(Get(Get(ndc_data, "ndcGroup", EmptyDict), "ndcList", EmptyDict), "ndc", <<>>)

\* The dicts of lines 106-112 and 114-120.
Row(ing, rxcui, ndc, rxcui_description, ndc_description) ==
    [ingredient |-> ing,
     rxcui |-> rxcui,
     ndc |-> ndc,
     rxcui_description |-> rxcui_description,
     ndc_description |-> ndc_description]

\* Lines 89-95 and 113-120.
NdcsStep(s, response) ==
    LET list == ndc_list_of(safe_get_json(response))
        it == s.related_rxcui_dict[s.item]
        t == [s EXCEPT !.ndc_list = list, !.ndc_list_bound = TRUE]
    IN  IF list # <<>>
        THEN [t EXCEPT !.total_ndc_count = s.total_ndc_count + Len(list),
                       !.ndc_index = 1,
                       !.pc = "props"]
        ELSE NextItem([t EXCEPT !.results =
                 Append(s.results, Row(ingredient(s), it.rxcui, Null, it.name, Null))])

\* A variant of lines 99-104 without the dict branch of lines 103-104.
ndc_description_of_list_only(ndc_prop_data) ==
    LET ndc_property ==
            Get(Get(ndc_prop_data, "ndcPropertyGroup", EmptyDict), "ndcProperty", PyNone)
    IN  IF ndc_property.type = "list" /\ ndc_property.value # <<>>
        THEN Get(ndc_property.value[1], "name", Null)
        ELSE Null

\* Lines 99-104.
ndc_description_of(ndc_prop_data) ==
    LET ndc_property ==
            Get(Get(ndc_prop_data, "ndcPropertyGroup", EmptyDict), "ndcProperty", PyNone)
    IN  IF ndc_property.type = "list" /\ ndc_property.value # <<>>
        THEN Get(ndc_property.value[1], "name", Null)
        ELSE IF ndc_property.type = "dict"
        THEN Get(ndc_property.value, "name", Null)
        ELSE Null

\* A variant of lines 96-112 that appends a record only when the property
\* lookup gave a description.
PropsStepSkippingUndescribed(s, response) ==
    LET it == s.related_rxcui_dict[s.item]
        ndc == s.ndc_list[s.ndc_index]
        ndc_description == ndc_description_of(safe_get_json(response))
        t == IF ndc_description = Null THEN s
             ELSE [s EXCEPT !.results =
                 Append(s.results, Row(ingredient(s), it.rxcui, ndc, it.name, ndc_description))]
    IN  IF s.ndc_index < Len(s.ndc_list)
        THEN [t EXCEPT !.ndc_index = s.ndc_index + 1]
        ELSE NextItem(t)

\* Lines 96-112.
PropsStep(s, response) ==
    LET it == s.related_rxcui_dict[s.item]
        ndc == s.ndc_list[s.ndc_index]
        ndc_description == ndc_description_of(safe_get_json(response))
        t == [s EXCEPT !.results =
                 Append(s.results, Row(ingredient(s), it.rxcui, ndc, it.name, ndc_description))]
    IN  IF s.ndc_index < Len(s.ndc_list)
        THEN [t EXCEPT !.ndc_index = s.ndc_index + 1]
        ELSE NextItem(t)

\* Lines 126-130: the message of line 126 reads ndc_list, which is unbound
\* until step 3 has fetched a code list: NameError, the script ends.
CompleteStep(s) ==
    IF ~s.ndc_list_bound
    THEN [s EXCEPT !.pc = "aborted"]
    ELSE NextIngredient([s EXCEPT !.temp_df = s.results])

\* Lines 132-134.
FinalStep(s) == [s EXCEPT !.df = s.results, !.pc = "done"]

(***************************************************************************)
(* What the claims say of a response, read from the response itself.       *)
(***************************************************************************)
AcceptedTermTypes == {"SCD", "SBD", "BPCK", "GPCK"}

HasPath(body, path) ==
    CASE Len(path) = 1 -> path[1] \in DOMAIN body
      [] Len(path) = 2 -> path[1] \in DOMAIN body /\ path[2] \in DOMAIN body[path[1]]
      [] Len(path) = 3 -> /\ path[1] \in DOMAIN body
                          /\ path[2] \in DOMAIN body[path[1]]
                          /\ path[3] \in DOMAIN body[path[1]][path[2]]

\* The identifiers a name lookup returned: none when the request failed, the
\* body was empty or unparseable, or the field is absent.
ReturnedIds(r) ==
    IF r.kind = "json" /\ HasPath(r.body, <<"idGroup", "rxnormId">>)
    THEN r.body.idGroup.rxnormId
    ELSE <<>>

\* The codes an ndcs call returned.
ReturnedCodes(r) ==
    IF r.kind = "json" /\ HasPath(r.body, <<"ndcGroup", "ndcList", "ndc">>)
    THEN r.body.ndcGroup.ndcList.ndc
    ELSE <<>>

\* The case of a property lookup, and the description the claim gives it.
PayloadShape(r) ==
    IF r.kind # "json" THEN "failed"
    ELSE IF ~HasPath(r.body, <<"ndcPropertyGroup", "ndcProperty">>) THEN "absent"
    ELSE LET p == r.body.ndcPropertyGroup.ndcProperty
         IN  CASE p.type = "list" /\ p.value = <<>> -> "empty list"
               [] p.type = "list" /\ p.value # <<>> ->
                    IF "name" \in DOMAIN p.value[1] THEN "list" ELSE "list, no name"
               [] p.type = "dict" ->
                    IF "name" \in DOMAIN p.value THEN "object" ELSE "object, no name"
               [] OTHER -> "absent"

ClaimedDescription(r) ==
    CASE PayloadShape(r) = "list" -> r.body.ndcPropertyGroup.ndcProperty.value[1].name
      [] PayloadShape(r) = "object" -> r.body.ndcPropertyGroup.ndcProperty.value.name
      [] OTHER -> Null

PayloadCase(r) == IF PayloadShape(r) \in {"list", "object"} THEN PayloadShape(r) ELSE "null"

\* The outcome of a call, as the claims class it.
Outcome(stage, r) ==
    IF r.kind = "exception" THEN "transport failure"
    ELSE IF r.kind \in {"blank", "badjson"} THEN "empty or unparseable body"
    ELSE IF r.body \in EmptyBodies(stage) THEN "empty"
    ELSE "data"

CallCase(stage, r) == IF Outcome(stage, r) = "data" THEN "data" ELSE "no data"

\* An entry of a related-concepts response, against the identifiers seen so
\* far for the ingredient (first accepted entry first).
IsAccepted(cp) == "tty" \in DOMAIN cp /\ cp.tty \in AcceptedTermTypes
Seen(seen, id) == \E j \in 1..Len(seen) : seen[j].rxcui = id
NameSeen(seen, id) == seen[CHOOSE j \in 1..Len(seen) : seen[j].rxcui = id].name

EntryCase(seen, cp) ==
    IF "tty" \notin DOMAIN cp THEN "no term type"
    ELSE IF cp.tty \notin AcceptedTermTypes THEN "other term type"
    ELSE IF "rxcui" \notin DOMAIN cp THEN "accepted"
    ELSE IF ~Seen(seen, cp.rxcui) THEN "accepted"
    ELSE IF NameSeen(seen, cp.rxcui) = cp.name THEN "accepted"
    ELSE "repeated, other name"

FirstSeen(seen, cp) ==
    IF IsAccepted(cp) /\ "rxcui" \in DOMAIN cp /\ ~Seen(seen, cp.rxcui)
    THEN Append(seen, [rxcui |-> cp.rxcui, name |-> cp.name])
    ELSE seen

(***************************************************************************)
(* Variables.  run is the script.  twin is a second run of the script that *)
(* is made when paired holds: it reads the same responses, except that a   *)
(* call that fails by a transport failure in one of the two runs may       *)
(* return an empty structure in the other.  data_calls counts the calls    *)
(* that returned data.  The others record what the service returned: last, *)
(* the step just taken and the case of its input; skipped, the ingredients *)
(* whose name lookup returned no identifier; calls, the calls of each      *)
(* ingredient; discovered, for each ingredient the identifiers of its      *)
(* accepted entries, first occurrence first; ledger, for each ndcs call    *)
(* the codes it returned and the description claimed for each property     *)
(* lookup made since.                                                      *)
(***************************************************************************)
VARIABLES run, twin, paired, last, data_calls, skipped, calls, discovered, ledger

vars == <<run, twin, paired, last, data_calls, skipped, calls, discovered, ledger>>

NoInput == [op |-> "none", case |-> "none", swapped |-> FALSE]

(***************************************************************************)
(* The environment: what a call may return, in the run and in its twin.    *)
(***************************************************************************)
Responses(stage) ==
    Failures
      \cup {Response("json", b) : b \in EmptyBodies(stage)}
      \cup {Response("json", b) : b \in IF data_calls < MaxData THEN DataBodies(stage) ELSE {}}

TwinResponses(stage, r) ==
    IF ~paired THEN {r}
    ELSE
    {r} \cup (CASE Outcome(stage, r) = "transport failure" ->
                     {Response("json", b) : b \in EmptyBodies(stage)}
                [] Outcome(stage, r) = "empty" -> {Response("exception", EmptyDict)}
                [] OTHER -> {})

Called(stage, r, r2, case) ==
    /\ last' = [op |-> stage, case |-> case, swapped |-> r2 # r]
    /\ data_calls' = IF Outcome(stage, r) = "data" THEN data_calls + 1 ELSE data_calls
    /\ calls' = calls \cup {<<run.pos, stage>>}

\* The twin takes the step of the run while it is where the run is.
Twin(next) ==
    /\ twin' = IF paired /\ twin.pc = run.pc THEN next ELSE twin
    /\ UNCHANGED paired

(***************************************************************************)
(* The steps of the script.                                                *)
(***************************************************************************)
Init ==
    /\ run = InitRun
    /\ twin = InitRun
    /\ paired = FALSE
    /\ last = NoInput
    /\ data_calls = 0
    /\ skipped = {}
    /\ calls = {}
    /\ discovered = [p \in 1..Len(ingredients) |-> <<>>]
    /\ ledger = <<>>

Resolve ==
    /\ run.pc = "resolve"
    /\ \E r \in Responses("name") : \E r2 \in TwinResponses("name", r) :
          /\ run' = ResolveStep(run, r)
          /\ Twin(ResolveStep(twin, r2))
          /\ Called("name", r, r2, CallCase("name", r))
          /\ skipped' = IF ReturnedIds(r) = <<>> THEN skipped \cup {run.pos} ELSE skipped
    /\ UNCHANGED <<discovered, ledger>>

Related ==
    /\ run.pc = "related"
    /\ \E r \in Responses("related") : \E r2 \in TwinResponses("related", r) :
          /\ run' = RelatedStep(run, r)
          /\ Twin(RelatedStep(twin, r2))
          /\ Called("related", r, r2, CallCase("related", r))
    /\ UNCHANGED <<skipped, discovered, ledger>>

GroupNext ==
    /\ run.pc = "group"
    /\ run.concept_groups > 0
    /\ \E g \in Groups :
          /\ run' = GroupStep(run, g)
          /\ Twin(GroupStep(twin, g))
    /\ last' = [NoInput EXCEPT !.op = "group"]
    /\ UNCHANGED <<data_calls, skipped, calls, discovered, ledger>>

GroupsEnd ==
    /\ run.pc = "group"
    /\ run.concept_groups = 0
    /\ run' = GroupsEndStep(run)
    /\ Twin(GroupsEndStep(twin))
    /\ last' = NoInput
    /\ UNCHANGED <<data_calls, skipped, calls, discovered, ledger>>

CpNext ==
    /\ run.pc = "cp"
    /\ run.concept_properties > 0
    /\ \E cp \in Concepts :
          /\ run' = CpStep(run, cp)
          /\ Twin(CpStep(twin, cp))
          /\ last' = [op |-> "cp", case |-> EntryCase(discovered[run.pos], cp), swapped |-> FALSE]
          /\ discovered' = [discovered EXCEPT ![run.pos] = FirstSeen(@, cp)]
    /\ UNCHANGED <<data_calls, skipped, calls, ledger>>

CpEnd ==
    /\ run.pc = "cp"
    /\ run.concept_properties = 0
    /\ run' = CpEndStep(run)
    /\ Twin(CpEndStep(twin))
    /\ last' = NoInput
    /\ UNCHANGED <<data_calls, skipped, calls, discovered, ledger>>

Ndcs ==
    /\ run.pc = "ndcs"
    /\ \E r \in Responses("ndcs") : \E r2 \in TwinResponses("ndcs", r) :
          /\ run' = NdcsStep(run, r)
          /\ Twin(NdcsStep(twin, r2))
          /\ Called("ndcs", r, r2, CallCase("ndcs", r))
          /\ ledger' = Append(ledger, [pos |-> run.pos,
                                       rxcui |-> run.related_rxcui_dict[run.item].rxcui,
                                       codes |-> ReturnedCodes(r),
                                       descriptions |-> <<>>])
    /\ UNCHANGED <<skipped, discovered>>

Props ==
    /\ run.pc = "props"
    /\ \E r \in Responses("props") : \E r2 \in TwinResponses("props", r) :
          /\ run' = PropsStep(run, r)
          /\ Twin(PropsStep(twin, r2))
          /\ Called("props", r, r2, PayloadCase(r))
          /\ ledger' = [ledger EXCEPT ![Len(ledger)].descriptions =
                            Append(@, ClaimedDescription(r))]
    /\ UNCHANGED <<skipped, discovered>>

Complete ==
    /\ run.pc = "complete"
    /\ run' = CompleteStep(run)
    /\ Twin(CompleteStep(twin))
    /\ last' = NoInput
    /\ UNCHANGED <<data_calls, skipped, calls, discovered, ledger>>

Final ==
    /\ run.pc = "final"
    /\ run' = FinalStep(run)
    /\ Twin(FinalStep(twin))
    /\ last' = NoInput
    /\ UNCHANGED <<data_calls, skipped, calls, discovered, ledger>>

Next ==
    \/ Resolve
    \/ Related
    \/ GroupNext
    \/ GroupsEnd
    \/ CpNext
    \/ CpEnd
    \/ Ndcs
    \/ Props
    \/ Complete
    \/ Final

Spec == Init /\ [][Next]_vars

\* The run and its twin.
InitPaired ==
    /\ run = InitRun
    /\ twin = InitRun
    /\ paired = TRUE
    /\ last = NoInput
    /\ data_calls = 0
    /\ skipped = {}
    /\ calls = {}
    /\ discovered = [p \in 1..Len(ingredients) |-> <<>>]
    /\ ledger = <<>>

SpecPaired == InitPaired /\ [][Next]_vars

(***************************************************************************)
(* Helpers of the claims.                                                  *)
(***************************************************************************)
Rows == {run.results[i] : i \in 1..Len(run.results)}
PosOf(name) == CHOOSE p \in 1..Len(ingredients) : ingredients[p] = name
IsPrefix(a, b) == Len(a) <= Len(b) /\ SubSeq(b, 1, Len(a)) = a

\* The dict of the state is the one of the ingredient at pos.
Expanding == run.pc \in {"related", "group", "cp", "ndcs", "props", "complete", "aborted"}
OfferedIds(p) == {discovered[p][j].rxcui : j \in 1..Len(discovered[p])}
IndexSeen(seen, id) == CHOOSE j \in 1..Len(seen) : seen[j].rxcui = id

\* The records of one (ingredient, identifier), in the order of the collection.
RowsOf(p, id) ==
    LET Of(row) == row.ingredient = ingredients[p] /\ row.rxcui = id
    IN  SelectSeq(run.results, Of)
CodesOf(rows) == [i \in 1..Len(rows) |-> rows[i].ndc]

\* An ndcs call whose codes have all been looked up.
Finished(k) == k < Len(ledger) \/ run.pc # "props"
Triple(row) == <<row.ingredient, row.rxcui, row.ndc>>
Occurrences(seq, x) == Cardinality({i \in 1..Len(seq) : seq[i] = x})

(***************************************************************************)
(* C1.  Whatever the calls return, the pipeline is never aborted: it       *)
(* reaches the state in which every ingredient is done and the final table *)
(* is assembled, also when an ingredient's lookup returns identifiers and  *)
(* its expansion retains none.  (Stated as the claim states it; the script *)
(* breaks it at line 126.)                                                 *)
(***************************************************************************)
C1_NeverAborted == run.pc # "aborted"

(***************************************************************************)
(* C2.  A transport failure and a successful call that returns an empty    *)
(* structure give the same result collection: the run and its twin, which  *)
(* differ in the outcome of one or more calls in just that way, hold the   *)
(* same records in the same order and are at the same place.               *)
(***************************************************************************)
C2_FailureIsEmptyResponse ==
    paired => /\ twin.results = run.results
              /\ twin.df = run.df
              /\ twin.pc = run.pc

C2_Witness ==
    /\ paired
    /\ last.op = "props"
    /\ last.swapped
    /\ Len(run.results) >= 2
    /\ \E st \in {"name", "related", "ndcs"} : <<run.pos, st>> \in calls

(***************************************************************************)
(* C3.  An ingredient whose name lookup returned no identifier has no      *)
(* record in the result collection, and no related-concepts, product-code  *)
(* or product-property call is made for it.                                *)
(***************************************************************************)
C3_SkippedIngredient ==
    \A p \in skipped :
        /\ \A row \in Rows : row.ingredient # ingredients[p]
        /\ \A st \in {"related", "ndcs", "props"} : <<p, st>> \notin calls

C3_Witness ==
    /\ run.pc = "done"
    /\ skipped # {}
    /\ run.results # <<>>

(***************************************************************************)
(* C4.  An entry whose term type is not SCD, SBD, BPCK or GPCK, or that    *)
(* has none, never adds its identifier to the expanded set: every          *)
(* identifier of the set, and the identifier of every record, was carried  *)
(* for that ingredient by an entry with an accepted term type.             *)
(***************************************************************************)
C4_OnlyAcceptedTermTypes ==
    /\ Expanding =>
          \A j \in 1..Len(run.related_rxcui_dict) :
              run.related_rxcui_dict[j].rxcui \in OfferedIds(run.pos)
    /\ \A row \in Rows : row.rxcui \in OfferedIds(PosOf(row.ingredient))

C4_Witness ==
    /\ last.op = "cp"
    /\ last.case = "no term type"
    /\ run.related_rxcui_dict # <<>>
    /\ run.results # <<>>

C6_OneRecordPerCode ==
    \A k \in 1..Len(ledger) :
        LET e == ledger[k]
            rows == RowsOf(e.pos, e.rxcui)
        IN  IF e.codes = <<>>
            THEN /\ Len(rows) = 1
                 /\ rows[1].ndc = Null
                 /\ rows[1].ndc_description = Null
            ELSE /\ Len(rows) = Len(e.descriptions)
                 /\ Finished(k) => Len(rows) = Len(e.codes)
                 /\ CodesOf(rows) = SubSeq(e.codes, 1, Len(rows))

C6_Witness ==
    /\ run.pc = "done"
    /\ \E k \in 1..Len(ledger) : Len(ledger[k].codes) = 2
    /\ \E k \in 1..Len(ledger) : ledger[k].codes = <<>>
    /\ \E row \in Rows : row.ndc # Null /\ row.ndc_description = Null

(***************************************************************************)
(* C7, as the claim states it.  No two records share the same (ingredient, *)
(* concept identifier, product code) triple, whatever the code lists hold. *)
(***************************************************************************)
C7_NoTwoRecordsShareATriple ==
    \A i, j \in 1..Len(run.results) :
        i # j => Triple(run.results[i]) # Triple(run.results[j])

(***************************************************************************)
(* C7, amended.  A triple has as many records as the identifier's code     *)
(* list has occurrences of the code, so two records share a triple only    *)
(* when the service's code list repeats the code; an identifier that       *)
(* yielded no codes has exactly one record with a null code, and one that  *)
(* yielded codes has none.                                                 *)
(***************************************************************************)
C7_OneRecordPerOccurrence ==
    /\ \A k \in 1..Len(ledger) :
          LET e == ledger[k]
              codes == CodesOf(RowsOf(e.pos, e.rxcui))
          IN  /\ Occurrences(codes, Null) = IF e.codes = <<>> THEN 1 ELSE 0
              /\ \A c \in NDCS :
                    Occurrences(codes, c) =
                        Occurrences(SubSeq(e.codes, 1, Len(e.descriptions)), c)
    /\ \A row \in Rows :
          \E k \in 1..Len(ledger) :
              ingredients[ledger[k].pos] = row.ingredient /\ ledger[k].rxcui = row.rxcui

C7_Witness ==
    /\ run.pc = "done"
    /\ \E i, j \in 1..Len(run.results) :
          i # j /\ Triple(run.results[i]) = Triple(run.results[j])
    /\ \E row \in Rows : row.ndc = Null

(***************************************************************************)
(* C8.  The final table holds no record with a null product code.          *)
(* (Stated as the claim states it; line 134 builds the table from every    *)
(* record.)                                                                *)
(***************************************************************************)
C8_NoNullCodeInFinalTable ==
    run.pc = "done" => \A i \in 1..Len(run.df) : run.df[i].ndc # Null

(***************************************************************************)
(* C9.  The result collection is append-only and in processing order:      *)
(* records follow the ingredient list, within an ingredient the order in   *)
(* which the identifiers were discovered, within an identifier the code    *)
(* list; a step never reorders, changes or removes a record, and each      *)
(* snapshot and the final table are prefixes of the collection.            *)
(***************************************************************************)
InProcessingOrder ==
    /\ \A i, j \in 1..Len(run.results) :
          i < j =>
             LET a == run.results[i]
                 b == run.results[j]
             IN  /\ PosOf(a.ingredient) <= PosOf(b.ingredient)
                 /\ a.ingredient = b.ingredient =>
                        IndexSeen(discovered[PosOf(a.ingredient)], a.rxcui)
                           <= IndexSeen(discovered[PosOf(a.ingredient)], b.rxcui)
    /\ \A k \in 1..Len(ledger) :
          ledger[k].codes # <<>> =>
             LET codes == CodesOf(RowsOf(ledger[k].pos, ledger[k].rxcui))
             IN  IsPrefix(codes, ledger[k].codes)
    /\ IsPrefix(run.temp_df, run.results)
    /\ IsPrefix(run.df, run.results)
    /\ run.pc = "done" => run.df = run.results

C9_AppendOnlyInProcessingOrder ==
    /\ []InProcessingOrder
    /\ [][IsPrefix(run.results, run'.results) /\ IsPrefix(run.temp_df, run'.temp_df)]_vars

C9_Witness ==
    /\ run.pc = "done"
    /\ \E a, b \in Rows : a.ingredient # b.ingredient
    /\ \E a, b \in Rows : a.ingredient = b.ingredient /\ a.rxcui # b.rxcui
    /\ run.temp_df = run.df

(***************************************************************************)
(* C10.  The product description of a record is the name of the first      *)
(* element of a non-empty list payload, the name of a single-object        *)
(* payload, and null when the name is missing, the payload is absent or an *)
(* empty list, or the lookup failed; in every case the record has the code *)
(* that was looked up and the identifier's description.                    *)
(***************************************************************************)
C10_DescriptionOfPayload ==
    \A k \in 1..Len(ledger) :
        LET e == ledger[k]
            rows == RowsOf(e.pos, e.rxcui)
        IN  \A i \in 1..Len(e.descriptions) :
                /\ i <= Len(rows)
                /\ rows[i].ndc_description = e.descriptions[i]
                /\ rows[i].ndc = e.codes[i]
                /\ rows[i].rxcui_description = NameSeen(discovered[e.pos], e.rxcui)

C10_Witness ==
    /\ last.op = "props"
    /\ last.case = "object"
    /\ Len(run.results) >= 2
    /\ LET n == Len(run.results)
       IN  /\ run.results[n].ndc_description # Null
           /\ run.results[n - 1].ndc # Null
           /\ run.results[n - 1].ndc_description = Null
           /\ run.results[n - 1].rxcui = run.results[n].rxcui

====
